---- MODULE Spec2Model ----
(***************************************************************************)
(* Model of arcus-memcached's cluster_config.c: the ketama continuum of a  *)
(* cache cluster node, its reconfiguration and the key ownership lookup.   *)
(*                                                                         *)
(* C strings are sequences of one-character strings.  NULL is the pointer  *)
(* 0; heap blocks are the cells of mem.  Array offsets are 0-based as in   *)
(* the C code; the TLA+ sequence holding an array is read at offset + 1.   *)
(***************************************************************************)
EXTENDS Integers, Sequences, FiniteSets, TLC

(***************************************************************************)
(* Program constants.                                                      *)
(***************************************************************************)
NUM_OF_HASHES == 40
NUM_PER_HASH == 4

(***************************************************************************)
(* Bounds of the model.                                                    *)
(***************************************************************************)
\* number of values of one digest "byte": the code has 256 (digest[k] & 0xFF);
\* the model keeps the four-byte little-endian composition and narrows the byte
\* so that a point fits TLC's integers
ByteBase == 128
\* modulus of the stand-in digest's accumulator
HashMod == 65521
\* heap blocks malloc can hand out
MaxPtr == 4
\* the lookup's exhaustive inputs: ring lengths 1..MaxRingLen, points 0..MaxPoint
MaxRingLen == 4
MaxPoint == 3
\* the registry's exhaustive inputs: tokens of up to MaxTokLen characters,
\* lists of up to MaxListLen tokens
MaxTokLen == 3
MaxListLen == 2

\* the null pointer to a heap block, and the null char pointer
NULL == 0
NULLSTR == <<"NULL">>

(***************************************************************************)
(* Strings.                                                                *)
(***************************************************************************)
Ascii ==
    ("-" :> 45) @@ ("(" :> 40) @@ (")" :> 41) @@ (":" :> 58) @@
    ("0" :> 48) @@ ("1" :> 49) @@ ("2" :> 50) @@ ("3" :> 51) @@ ("4" :> 52) @@
    ("5" :> 53) @@ ("6" :> 54) @@ ("7" :> 55) @@ ("8" :> 56) @@ ("9" :> 57) @@
    ("a" :> 97) @@ ("b" :> 98) @@ ("k" :> 107) @@ ("l" :> 108) @@
    ("n" :> 110) @@ ("u" :> 117)

Digits == <<"0", "1", "2", "3", "4", "5", "6", "7", "8", "9">>

\* printf's %u
RECURSIVE Decimal(_)
Decimal(n) ==
    IF n < 10 THEN <<Digits[n + 1]>>
    ELSE Decimal(n \div 10) \o <<Digits[(n % 10) + 1]>>

\* what printf's %s prints for a null pointer in the C library the server is
\* built with (glibc); the other outcome of that call is a crash
NullText == <<"(", "n", "u", "l", "l", ")">>

(***************************************************************************)
(* Digest engine.  MD5 is not part of the sources at hand; the stand-in is *)
(* a deterministic 16-"byte" digest of the string.                         *)
(***************************************************************************)
RECURSIVE DigestFold(_, _)
DigestFold(s, h) ==
    IF s = <<>> THEN h
    ELSE DigestFold(Tail(s), (h * 131 + Ascii[Head(s)]) % HashMod)

\* digest[k], k in 0..15
hash_md5(s) ==
    LET h == DigestFold(s, 7)
    IN [k \in 0..15 |->
          (((h + 1) * (2 * k + 3) * 37 + k * 101 + Len(s)) \div 3) % ByteBase]

\* the 32-bit value of digest[off+3] digest[off+2] digest[off+1] digest[off]
PointFromDigest(digest, off) ==
      digest[off + 3] * ByteBase * ByteBase * ByteBase
    + digest[off + 2] * ByteBase * ByteBase
    + digest[off + 1] * ByteBase
    + digest[off]

hash_ketama(key) == PointFromDigest(hash_md5(key), 0)

(***************************************************************************)
(* Server registry: server_item_populate.                                  *)
(***************************************************************************)
\* number of leading delimiters strtok_r skips
RECURSIVE LeadingDashes(_)
LeadingDashes(s) ==
    IF s # <<>> /\ Head(s) = "-" THEN 1 + LeadingDashes(Tail(s)) ELSE 0

\* length of the prefix of s that holds no delimiter
RECURSIVE TokenLen(_)
TokenLen(s) ==
    IF s = <<>> \/ Head(s) = "-" THEN 0 ELSE 1 + TokenLen(Tail(s))

\* strtok_r(server_list[i], "-", &buf) followed by strdup(server_list[i]):
\* strtok_r skips the leading delimiters, and when a token follows them it
\* writes the terminator over the delimiter that ends the token; strdup then
\* copies server_list[i] from its first character up to that terminator.
\* With no token the loop body does not run and hostport stays NULL.
CanonicalHostport(token) ==
    LET lead == LeadingDashes(token)
        rest == SubSeq(token, lead + 1, Len(token))
    IN IF rest = <<>> THEN NULLSTR
       ELSE SubSeq(token, 1, lead + TokenLen(rest))

\* mutant: the scan stops at the first matching entry
RECURSIVE SelfIdScan_first(_, _, _, _)
SelfIdScan_first(hostports, self_hostport, i, self_id) ==
    IF i >= Len(hostports) THEN self_id
    ELSE IF hostports[i + 1] # NULLSTR /\ hostports[i + 1] = self_hostport THEN i
    ELSE SelfIdScan_first(hostports, self_hostport, i + 1, self_id)

\* the self_id the loop leaves: every matching i overwrites it
RECURSIVE SelfIdScan(_, _, _, _)
SelfIdScan(hostports, self_hostport, i, self_id) ==
    IF i >= Len(hostports) THEN self_id
    ELSE SelfIdScan(hostports, self_hostport, i + 1,
                    IF hostports[i + 1] # NULLSTR /\ hostports[i + 1] = self_hostport
                    THEN i ELSE self_id)

\* a run of server_item_populate in which every allocation succeeds
server_item_populate(server_list, self_hostport, self_id) ==
    LET hostports == [i \in 1..Len(server_list) |-> CanonicalHostport(server_list[i])]
    IN [servers |-> hostports,
        self_id |-> SelfIdScan(hostports, self_hostport, 0, self_id)]

\* what strtok_r leaves in the caller's buffer, read as a C string
StrtokResidue(token) ==
    IF CanonicalHostport(token) = NULLSTR THEN token ELSE CanonicalHostport(token)

(***************************************************************************)
(* Ring builder: ketama_continuum_generate.                                *)
(***************************************************************************)
\* snprintf(host, ..., "%s-%u", servers[ss].hostport, hh)
HostText(hostport, hh) ==
    (IF hostport = NULLSTR THEN NullText ELSE hostport) \o <<"-">> \o Decimal(hh)

\* mutant: the item's index is the hash number hh, not the server ss
RawContinuum_hh(servers) ==
    LET points_per_server == NUM_OF_HASHES * NUM_PER_HASH
        digest == [ss \in 0..(Len(servers) - 1) |->
                     [hh \in 0..(NUM_OF_HASHES - 1) |->
                        hash_md5(HostText(servers[ss + 1], hh))]]
    IN [q \in 1..(points_per_server * Len(servers)) |->
          LET pp == q - 1
              ss == pp \div points_per_server
              hh == (pp % points_per_server) \div NUM_PER_HASH
              nn == pp % NUM_PER_HASH
          IN [index |-> hh,
              point |-> PointFromDigest(digest[ss][hh], nn * NUM_PER_HASH)]]

\* the continuum as the two nested loops fill it, before qsort
RawContinuum(servers) ==
    LET points_per_server == NUM_OF_HASHES * NUM_PER_HASH
        digest == [ss \in 0..(Len(servers) - 1) |->
                     [hh \in 0..(NUM_OF_HASHES - 1) |->
                        hash_md5(HostText(servers[ss + 1], hh))]]
    IN [q \in 1..(points_per_server * Len(servers)) |->
          LET pp == q - 1
              ss == pp \div points_per_server
              hh == (pp % points_per_server) \div NUM_PER_HASH
              nn == pp % NUM_PER_HASH
          IN [index |-> ss,
              point |-> PointFromDigest(digest[ss][hh], nn * NUM_PER_HASH)]]

continuum_item_cmp(ct1, ct2) ==
    IF ct1.point = ct2.point THEN 0
    ELSE IF ct1.point > ct2.point THEN 1 ELSE -1

\* qsort leaves the order of items that compare equal unspecified; the model
\* has the two orders a merge sort and its mirror image give
TieOrders == {"kept", "reversed"}

\* items of one server that compare equal are the same item, so the order of
\* equal items is decided by their server index
QsortBefore(ct1, ct2, ties) ==
    \/ continuum_item_cmp(ct1, ct2) < 0
    \/ /\ continuum_item_cmp(ct1, ct2) = 0
       /\ IF ties = "kept" THEN ct1.index < ct2.index ELSE ct1.index > ct2.index

ketama_continuum_generate(servers, ties) ==
    SortSeq(RawContinuum(servers), LAMBDA ct1, ct2 : QsortBefore(ct1, ct2, ties))

(***************************************************************************)
(* State.                                                                  *)
(***************************************************************************)
VARIABLES
    config,     \* struct cluster_config, without its lock
    lock,       \* config->lock: the thread that holds it, or "none"
    mem,        \* the heap blocks of the server lists and continuums
    rc,         \* the frame of cluster_config_reconfigure (the administrative path)
    kim,        \* the frames of cluster_config_key_is_mine, one per worker thread
    intro,      \* the last introspection call and what it returned
    pre,        \* the installed state and the server list as they were when the
                \* running reconfigure was called; whether the last reconfigure
                \* that returned succeeded (last_ok), and the list of the last
                \* one that did (last_list)
    ndebug,     \* whether the build defines NDEBUG (assert compiled out)
    fault       \* "none", or what killed the process: a failed assert ("assert"),
                \* snprintf of a null string ("snprintf"), a read outside an array ("read")

vars == <<config, lock, mem, rc, kim, intro, pre, ndebug, fault>>

Resolvers == {"r1", "r2"}
Threads == {"admin"} \cup Resolvers

\* this node's own address, as given to cluster_config_set_hostport
SelfHostport == <<"a">>

\* the server lists the administrative path passes to reconfigure: the empty
\* list, a list that holds this node, one that does not, one that holds it
\* twice (once with a suffix), and one whose token holds only the separator
ServerLists ==
    { <<>>,
      << <<"b">>, <<"a">> >>,
      << <<"b">> >>,
      << <<"a", "-", "k">>, <<"a">> >>,
      << <<"-">> >> }

\* the keys the workers look up
Keys == { <<"k">>, <<"a", "b">> }

Ptrs == 1..MaxPtr
FreeBlock == [kind |-> "free"]

\* malloc/calloc/strdup hand out the lowest free block
Malloc(m) == CHOOSE p \in Ptrs : m[p] = FreeBlock /\ \A q \in Ptrs : q < p => m[q] # FreeBlock

\* free(p); free(NULL) does nothing
Free(m, p) == IF p = NULL THEN m ELSE [m EXCEPT ![p] = FreeBlock]

\* the server arrays the registry can produce from ServerLists
ServerArrays ==
    {server_item_populate(server_list, SelfHostport, 0).servers : server_list \in ServerLists}

\* the continuum ketama_continuum_generate leaves for each server array and order
\* of equal points.  A continuum block is written once, by the builder, and never
\* changed until it is freed: the block records what it was built from and its
\* items are read here
ContinuumTable ==
    [servers \in ServerArrays |->
       [ties \in TieOrders |-> ketama_continuum_generate(servers, ties)]]

\* the array a pointer points to; nothing for NULL or a freed block
ArrayAt(m, p) ==
    IF p = NULL \/ m[p] = FreeBlock THEN <<>>
    ELSE IF m[p].kind = "continuum" THEN ContinuumTable[m[p].servers][m[p].ties]
    ELSE m[p].val

\* the block a pointer points to
BlockAt(m, p) == IF p = NULL THEN FreeBlock ELSE m[p]

\* the installed state: the fields and the blocks they point to
Installed == [config |-> config,
              servers |-> BlockAt(mem, config.servers),
              continuum |-> BlockAt(mem, config.continuum)]

\* what `pre` records when reconfigure is called with server_list
Snapshot(server_list) ==
    [config |-> config,
     servers |-> BlockAt(mem, config.servers),
     continuum |-> BlockAt(mem, config.continuum),
     server_list |-> server_list,
     last_ok |-> pre.last_ok, last_list |-> pre.last_list]

Unwritten == -1

RcIdle ==
    [pc |-> "idle", server_list |-> <<>>, self_id |-> 0, num_continuum |-> 0,
     servers |-> NULL, continuum |-> NULL, ret |-> FALSE]

KimIdle ==
    [pc |-> "idle", key |-> <<>>, self |-> 0, digest |-> 0, beginp |-> NULL,
     endp |-> 0, lowp |-> 0, highp |-> 0, server |-> 0, reads |-> {},
     key_id |-> Unwritten, self_id |-> Unwritten, ret |-> FALSE]

\* cluster_config_init: calloc zeroes the struct, is_valid is set false
Init ==
    /\ config = [self_id |-> 0, self_hostport |-> NULLSTR, num_servers |-> 0,
                 num_continuum |-> 0, servers |-> NULL, continuum |-> NULL,
                 is_valid |-> FALSE]
    /\ lock = "none"
    /\ mem = [p \in Ptrs |-> FreeBlock]
    /\ rc = [RcIdle EXCEPT !.pc = "start"]
    /\ kim = [r \in Resolvers |-> KimIdle]
    /\ intro = [fn |-> "none", ret |-> 0]
    /\ pre = [config |-> config, servers |-> FreeBlock, continuum |-> FreeBlock,
              server_list |-> <<>>, last_ok |-> FALSE, last_list |-> <<>>]
    /\ ndebug \in BOOLEAN
    /\ fault = "none"

(***************************************************************************)
(* cluster_config_set_hostport and cluster_config_reconfigure.             *)
(***************************************************************************)
set_hostport ==
    /\ fault = "none"
    /\ rc.pc = "start"
    /\ config' = [config EXCEPT !.self_hostport = SelfHostport]
    /\ rc' = [rc EXCEPT !.pc = "idle"]
    /\ pre' = [pre EXCEPT !.config = config']
    /\ UNCHANGED <<lock, mem, kim, intro, ndebug, fault>>

\* mutant: reconfigure takes the lock on entry, before the registry runs
reconfigure_call_locked(server_list) ==
    /\ fault = "none"
    /\ rc.pc = "idle"
    /\ lock = "none"
    /\ lock' = "admin"
    /\ rc' = [RcIdle EXCEPT !.pc = "populate", !.server_list = server_list]
    /\ pre' = Snapshot(server_list)
    /\ UNCHANGED <<config, mem, kim, intro, ndebug, fault>>

\* mutant: the local self_id starts from the installed self_id
reconfigure_call_keep_self(server_list) ==
    /\ fault = "none"
    /\ rc.pc = "idle"
    /\ rc' = [RcIdle EXCEPT !.pc = "populate", !.server_list = server_list,
                            !.self_id = config.self_id]
    /\ pre' = Snapshot(server_list)
    /\ UNCHANGED <<config, lock, mem, kim, intro, ndebug, fault>>

\* entry: the locals of lines 263-266
reconfigure_call(server_list) ==
    /\ fault = "none"
    /\ rc.pc = "idle"
    /\ rc' = [RcIdle EXCEPT !.pc = "populate", !.server_list = server_list]
    /\ pre' = Snapshot(server_list)
    /\ UNCHANGED <<config, lock, mem, kim, intro, ndebug, fault>>

\* lines 270-275.  failAt = 0: calloc fails; failAt = i > 0: the strdup of
\* token i fails (the blocks taken so far are freed); failAt = -1: success
reconfigure_populate ==
    /\ fault = "none"
    /\ rc.pc = "populate"
    /\ \E failAt \in -1..Len(rc.server_list) :
         LET n == Len(rc.server_list)
             touched == IF failAt = -1 THEN n ELSE failAt
             residue == [i \in 1..n |-> IF i <= touched
                                         THEN StrtokResidue(rc.server_list[i])
                                         ELSE rc.server_list[i]]
             got == server_item_populate(rc.server_list, config.self_hostport, rc.self_id)
             p == Malloc(mem)
         IN /\ failAt > 0 => CanonicalHostport(rc.server_list[failAt]) # NULLSTR
            /\ IF failAt = -1
               THEN /\ mem' = [mem EXCEPT ![p] = [kind |-> "servers", val |-> got.servers]]
                    /\ rc' = [rc EXCEPT !.pc = "generate", !.server_list = residue,
                                        !.servers = p, !.self_id = got.self_id]
               ELSE /\ mem' = mem
                    /\ rc' = [rc EXCEPT !.pc = "fail_lock", !.server_list = residue]
    /\ UNCHANGED <<config, lock, kim, intro, pre, ndebug, fault>>

\* lines 277-285.  calloc may fail; snprintf of a null hostport is undefined
\* (it prints "(null)" or the process dies); qsort orders equal points either way
reconfigure_generate ==
    /\ fault = "none"
    /\ rc.pc = "generate"
    /\ LET servers == ArrayAt(mem, rc.servers)
       IN \/ /\ mem' = Free(mem, rc.servers)
             /\ rc' = [rc EXCEPT !.pc = "fail_lock", !.servers = NULL]
             /\ UNCHANGED fault
          \/ /\ \E i \in 1..Len(servers) : servers[i] = NULLSTR
             /\ fault' = "snprintf"
             /\ UNCHANGED <<mem, rc>>
          \/ \E ties \in TieOrders :
               LET p == Malloc(mem)
                   block == [kind |-> "continuum", servers |-> servers, ties |-> ties]
               IN /\ mem' = [mem EXCEPT ![p] = block]
                  /\ rc' = [rc EXCEPT !.pc = "lock", !.continuum = p,
                                      !.num_continuum = Len(ArrayAt(mem', p))]
                  /\ UNCHANGED fault
    /\ UNCHANGED <<config, lock, kim, intro, pre, ndebug>>

\* mutant: the install step runs without taking the lock
reconfigure_lock_nomutex ==
    /\ fault = "none"
    /\ rc.pc = "lock"
    /\ rc' = [rc EXCEPT !.pc = "free_old"]
    /\ UNCHANGED <<config, lock, mem, kim, intro, pre, ndebug, fault>>

\* line 287
reconfigure_lock ==
    /\ fault = "none"
    /\ rc.pc = "lock"
    /\ lock = "none"
    /\ lock' = "admin"
    /\ rc' = [rc EXCEPT !.pc = "free_old"]
    /\ UNCHANGED <<config, mem, kim, intro, pre, ndebug, fault>>

\* lines 289-291
reconfigure_free_old ==
    /\ fault = "none"
    /\ rc.pc = "free_old"
    /\ mem' = Free(Free(mem, config.servers), config.continuum)
    /\ rc' = [rc EXCEPT !.pc = "store_self_id"]
    /\ UNCHANGED <<config, lock, kim, intro, pre, ndebug, fault>>

\* line 293
reconfigure_store_self_id ==
    /\ fault = "none"
    /\ rc.pc = "store_self_id"
    /\ config' = [config EXCEPT !.self_id = rc.self_id]
    /\ rc' = [rc EXCEPT !.pc = "store_num_servers"]
    /\ UNCHANGED <<lock, mem, kim, intro, pre, ndebug, fault>>

\* line 294
reconfigure_store_num_servers ==
    /\ fault = "none"
    /\ rc.pc = "store_num_servers"
    /\ config' = [config EXCEPT !.num_servers = Len(rc.server_list)]
    /\ rc' = [rc EXCEPT !.pc = "store_servers"]
    /\ UNCHANGED <<lock, mem, kim, intro, pre, ndebug, fault>>

\* line 295
reconfigure_store_servers ==
    /\ fault = "none"
    /\ rc.pc = "store_servers"
    /\ config' = [config EXCEPT !.servers = rc.servers]
    /\ rc' = [rc EXCEPT !.pc = "store_continuum"]
    /\ UNCHANGED <<lock, mem, kim, intro, pre, ndebug, fault>>

\* line 296
reconfigure_store_continuum ==
    /\ fault = "none"
    /\ rc.pc = "store_continuum"
    /\ config' = [config EXCEPT !.continuum = rc.continuum]
    /\ rc' = [rc EXCEPT !.pc = "store_num_continuum"]
    /\ UNCHANGED <<lock, mem, kim, intro, pre, ndebug, fault>>

\* mutant: the store of line 297 is missing
reconfigure_store_num_continuum_skip ==
    /\ fault = "none"
    /\ rc.pc = "store_num_continuum"
    /\ rc' = [rc EXCEPT !.pc = "store_is_valid"]
    /\ UNCHANGED <<config, lock, mem, kim, intro, pre, ndebug, fault>>

\* line 297
reconfigure_store_num_continuum ==
    /\ fault = "none"
    /\ rc.pc = "store_num_continuum"
    /\ config' = [config EXCEPT !.num_continuum = rc.num_continuum]
    /\ rc' = [rc EXCEPT !.pc = "store_is_valid"]
    /\ UNCHANGED <<lock, mem, kim, intro, pre, ndebug, fault>>

\* mutant: the store of line 298 is missing
reconfigure_store_is_valid_skip ==
    /\ fault = "none"
    /\ rc.pc = "store_is_valid"
    /\ rc' = [rc EXCEPT !.pc = "unlock"]
    /\ UNCHANGED <<config, lock, mem, kim, intro, pre, ndebug, fault>>

\* line 298
reconfigure_store_is_valid ==
    /\ fault = "none"
    /\ rc.pc = "store_is_valid"
    /\ config' = [config EXCEPT !.is_valid = TRUE]
    /\ rc' = [rc EXCEPT !.pc = "unlock"]
    /\ UNCHANGED <<lock, mem, kim, intro, pre, ndebug, fault>>

\* lines 300-302
reconfigure_unlock ==
    /\ fault = "none"
    /\ rc.pc = "unlock"
    /\ lock' = "none"
    /\ rc' = [rc EXCEPT !.pc = "return", !.ret = TRUE]
    /\ UNCHANGED <<config, mem, kim, intro, pre, ndebug, fault>>

\* line 305
reconfigure_fail_lock ==
    /\ fault = "none"
    /\ rc.pc = "fail_lock"
    /\ lock = "none"
    /\ lock' = "admin"
    /\ rc' = [rc EXCEPT !.pc = "fail_store"]
    /\ UNCHANGED <<config, mem, kim, intro, pre, ndebug, fault>>

\* mutant: the failure path also resets the counts
reconfigure_fail_store_reset ==
    /\ fault = "none"
    /\ rc.pc = "fail_store"
    /\ config' = [config EXCEPT !.is_valid = FALSE, !.num_servers = 0,
                                !.num_continuum = 0]
    /\ rc' = [rc EXCEPT !.pc = "fail_unlock"]
    /\ UNCHANGED <<lock, mem, kim, intro, pre, ndebug, fault>>

\* line 306
reconfigure_fail_store ==
    /\ fault = "none"
    /\ rc.pc = "fail_store"
    /\ config' = [config EXCEPT !.is_valid = FALSE]
    /\ rc' = [rc EXCEPT !.pc = "fail_unlock"]
    /\ UNCHANGED <<lock, mem, kim, intro, pre, ndebug, fault>>

\* lines 307-309
reconfigure_fail_unlock ==
    /\ fault = "none"
    /\ rc.pc = "fail_unlock"
    /\ lock' = "none"
    /\ rc' = [rc EXCEPT !.pc = "return", !.ret = FALSE]
    /\ UNCHANGED <<config, mem, kim, intro, pre, ndebug, fault>>

\* the caller takes the result
reconfigure_return ==
    /\ fault = "none"
    /\ rc.pc = "return"
    /\ rc' = RcIdle
    /\ pre' = [Snapshot(<<>>) EXCEPT
                 !.last_ok = rc.ret,
                 !.last_list = IF rc.ret THEN pre.server_list ELSE pre.last_list]
    /\ UNCHANGED <<config, lock, mem, kim, intro, ndebug, fault>>

(***************************************************************************)
(* cluster_config_key_is_mine.                                             *)
(***************************************************************************)
\* what a read outside the array (or of a freed or null block) may yield
JunkItems == {[index |-> 0, point |-> 0], [index |-> 1, point |-> ByteBase]}

\* the item at continuum + off as the frame's pointers see it
ItemAt(ring, off, junk) ==
    IF off \in 0..(Len(ring) - 1) THEN ring[off + 1] ELSE junk

\* mutant: the match test is digest <= mid alone
KimLoopBody_noprev(f, ring, junk) ==
    LET midp == f.lowp + (f.highp - f.lowp) \div 2
        mid == ItemAt(ring, midp, junk).point
        lowp == IF mid < f.digest THEN midp + 1 ELSE f.lowp
        highp == IF mid < f.digest THEN f.highp ELSE midp - 1
    IN IF midp = f.endp
       THEN [f EXCEPT !.server = ItemAt(ring, 0, junk).index, !.pc = "out",
                      !.reads = {0}]
       ELSE IF f.digest <= mid
       THEN [f EXCEPT !.server = ItemAt(ring, midp, junk).index, !.pc = "out",
                      !.reads = {midp}]
       ELSE IF lowp > highp
       THEN [f EXCEPT !.lowp = lowp, !.highp = highp,
                      !.server = ItemAt(ring, 0, junk).index, !.pc = "out",
                      !.reads = {midp, 0}]
       ELSE [f EXCEPT !.lowp = lowp, !.highp = highp, !.reads = {midp}]

\* mutant: at the end of the array the search takes the last item, not the 0th
KimLoopBody_nowrap(f, ring, junk) ==
    LET midp == f.lowp + (f.highp - f.lowp) \div 2
        mid == ItemAt(ring, midp, junk).point
        prev == IF midp = 0 THEN 0 ELSE ItemAt(ring, midp - 1, junk).point
        lowp == IF mid < f.digest THEN midp + 1 ELSE f.lowp
        highp == IF mid < f.digest THEN f.highp ELSE midp - 1
        probe == {midp} \cup (IF midp = 0 THEN {} ELSE {midp - 1})
    IN IF midp = f.endp
       THEN [f EXCEPT !.server = ItemAt(ring, f.endp - 1, junk).index, !.pc = "out",
                      !.reads = {f.endp - 1}]
       ELSE IF f.digest <= mid /\ f.digest > prev
       THEN [f EXCEPT !.server = ItemAt(ring, midp, junk).index, !.pc = "out",
                      !.reads = probe]
       ELSE IF lowp > highp
       THEN [f EXCEPT !.lowp = lowp, !.highp = highp,
                      !.server = ItemAt(ring, 0, junk).index, !.pc = "out",
                      !.reads = probe \cup {0}]
       ELSE [f EXCEPT !.lowp = lowp, !.highp = highp, !.reads = probe]

\* one pass of the while loop, lines 336-361, over the array `ring` that beginp
\* points to: the new lowp, highp and server, whether the loop broke, and the
\* offsets of the items read
KimLoopBody(f, ring, junk) ==
    LET midp == f.lowp + (f.highp - f.lowp) \div 2
        mid == ItemAt(ring, midp, junk).point
        prev == IF midp = 0 THEN 0 ELSE ItemAt(ring, midp - 1, junk).point
        lowp == IF mid < f.digest THEN midp + 1 ELSE f.lowp
        highp == IF mid < f.digest THEN f.highp ELSE midp - 1
        probe == {midp} \cup (IF midp = 0 THEN {} ELSE {midp - 1})
    IN IF midp = f.endp
       THEN [f EXCEPT !.server = ItemAt(ring, 0, junk).index, !.pc = "out",
                      !.reads = {0}]
       ELSE IF f.digest <= mid /\ f.digest > prev
       THEN [f EXCEPT !.server = ItemAt(ring, midp, junk).index, !.pc = "out",
                      !.reads = probe]
       ELSE IF lowp > highp
       THEN [f EXCEPT !.lowp = lowp, !.highp = highp,
                      !.server = ItemAt(ring, 0, junk).index, !.pc = "out",
                      !.reads = probe \cup {0}]
       ELSE [f EXCEPT !.lowp = lowp, !.highp = highp, !.reads = probe]

\* the whole loop
RECURSIVE KimSearch(_, _, _)
KimSearch(f, ring, junk) ==
    IF f.pc = "out" THEN f ELSE KimSearch(KimLoopBody(f, ring, junk), ring, junk)

\* entry and lines 319-320: assert(config->continuum) reads the pointer before
\* the lock is taken; a build with NDEBUG has no assert.  A call whose assert
\* fails stays at "assert": the process has died inside it
key_is_mine_call(r, key) ==
    /\ fault = "none"
    /\ kim[r].pc = "idle"
    /\ IF ~ndebug /\ config.continuum = NULL
       THEN /\ fault' = "assert"
            /\ kim' = [kim EXCEPT ![r] = [KimIdle EXCEPT !.pc = "assert", !.key = key]]
       ELSE /\ kim' = [kim EXCEPT ![r] = [KimIdle EXCEPT !.pc = "lock", !.key = key]]
            /\ UNCHANGED fault
    /\ UNCHANGED <<config, lock, mem, rc, intro, pre, ndebug>>

\* mutant: the lookup runs without taking the lock
key_is_mine_lock_nomutex(r) ==
    /\ fault = "none"
    /\ kim[r].pc = "lock"
    /\ kim' = [kim EXCEPT ![r].pc = "check_valid"]
    /\ UNCHANGED <<config, lock, mem, rc, intro, pre, ndebug, fault>>

\* line 322
key_is_mine_lock(r) ==
    /\ fault = "none"
    /\ kim[r].pc = "lock"
    /\ lock = "none"
    /\ lock' = r
    /\ kim' = [kim EXCEPT ![r].pc = "check_valid"]
    /\ UNCHANGED <<config, mem, rc, intro, pre, ndebug, fault>>

\* lines 325-328
key_is_mine_check_valid(r) ==
    /\ fault = "none"
    /\ kim[r].pc = "check_valid"
    /\ IF config.is_valid = FALSE
       THEN /\ lock' = (IF lock = r THEN "none" ELSE lock)
            /\ kim' = [kim EXCEPT ![r] = [KimIdle EXCEPT !.pc = "return", !.ret = TRUE]]
       ELSE /\ kim' = [kim EXCEPT ![r].pc = "read_self"]
            /\ UNCHANGED lock
    /\ UNCHANGED <<config, mem, rc, intro, pre, ndebug, fault>>

\* lines 330-331
key_is_mine_read_self(r) ==
    /\ fault = "none"
    /\ kim[r].pc = "read_self"
    /\ kim' = [kim EXCEPT ![r].pc = "read_begin", ![r].self = config.self_id,
                          ![r].digest = hash_ketama(kim[r].key)]
    /\ UNCHANGED <<config, lock, mem, rc, intro, pre, ndebug, fault>>

\* line 332
key_is_mine_read_begin(r) ==
    /\ fault = "none"
    /\ kim[r].pc = "read_begin"
    /\ kim' = [kim EXCEPT ![r].pc = "read_end", ![r].beginp = config.continuum,
                          ![r].lowp = 0]
    /\ UNCHANGED <<config, lock, mem, rc, intro, pre, ndebug, fault>>

\* line 333
key_is_mine_read_end(r) ==
    /\ fault = "none"
    /\ kim[r].pc = "read_end"
    /\ kim' = [kim EXCEPT ![r].pc = "loop", ![r].endp = config.num_continuum,
                          ![r].highp = config.num_continuum]
    /\ UNCHANGED <<config, lock, mem, rc, intro, pre, ndebug, fault>>

\* lines 335-362, one pass.  A read outside the array is undefined: it yields
\* junk or the process dies
key_is_mine_loop(r) ==
    /\ fault = "none"
    /\ kim[r].pc = "loop"
    /\ LET ring == ArrayAt(mem, kim[r].beginp)
       IN \E junk \in JunkItems :
            LET f == KimLoopBody(kim[r], ring, junk)
            IN \/ /\ kim' = [kim EXCEPT ![r] = f]
                  /\ UNCHANGED fault
               \/ /\ ~(f.reads \subseteq 0..(Len(ring) - 1))
                  /\ fault' = "read"
                  /\ UNCHANGED kim
    /\ UNCHANGED <<config, lock, mem, rc, intro, pre, ndebug>>

\* lines 364-365
key_is_mine_out(r) ==
    /\ fault = "none"
    /\ kim[r].pc = "out"
    /\ kim' = [kim EXCEPT ![r].pc = "unlock", ![r].key_id = kim[r].server,
                          ![r].self_id = kim[r].self]
    /\ UNCHANGED <<config, lock, mem, rc, intro, pre, ndebug, fault>>

\* lines 367-369
key_is_mine_unlock(r) ==
    /\ fault = "none"
    /\ kim[r].pc = "unlock"
    /\ lock' = (IF lock = r THEN "none" ELSE lock)
    /\ kim' = [kim EXCEPT ![r] = [KimIdle EXCEPT !.pc = "return",
                                                !.key_id = kim[r].key_id,
                                                !.self_id = kim[r].self_id,
                                                !.ret = (kim[r].server = kim[r].self)]]
    /\ UNCHANGED <<config, mem, rc, intro, pre, ndebug, fault>>

\* the caller takes the result (a frame at "return" holds only what the call
\* hands back: the locals are gone)
key_is_mine_return(r) ==
    /\ fault = "none"
    /\ kim[r].pc = "return"
    /\ kim' = [kim EXCEPT ![r] = KimIdle]
    /\ UNCHANGED <<config, lock, mem, rc, intro, pre, ndebug, fault>>

(***************************************************************************)
(* Introspection: plain reads of one field, without the lock.              *)
(***************************************************************************)
cluster_config_self_id ==
    /\ fault = "none"
    /\ intro' = [fn |-> "self_id", ret |-> config.self_id]
    /\ UNCHANGED <<config, lock, mem, rc, kim, pre, ndebug, fault>>

cluster_config_num_servers ==
    /\ fault = "none"
    /\ intro' = [fn |-> "num_servers", ret |-> config.num_servers]
    /\ UNCHANGED <<config, lock, mem, rc, kim, pre, ndebug, fault>>

cluster_config_num_continuum ==
    /\ fault = "none"
    /\ intro' = [fn |-> "num_continuum", ret |-> config.num_continuum]
    /\ UNCHANGED <<config, lock, mem, rc, kim, pre, ndebug, fault>>

cluster_config_is_valid ==
    /\ fault = "none"
    /\ intro' = [fn |-> "is_valid", ret |-> IF config.is_valid THEN 1 ELSE 0]
    /\ UNCHANGED <<config, lock, mem, rc, kim, pre, ndebug, fault>>

(***************************************************************************)
(* The program: the administrative thread and the worker threads.          *)
(***************************************************************************)
Reconfigure ==
    \/ set_hostport
    \/ \E server_list \in ServerLists : reconfigure_call(server_list)
    \/ reconfigure_populate
    \/ reconfigure_generate
    \/ reconfigure_lock
    \/ reconfigure_free_old
    \/ reconfigure_store_self_id
    \/ reconfigure_store_num_servers
    \/ reconfigure_store_servers
    \/ reconfigure_store_continuum
    \/ reconfigure_store_num_continuum
    \/ reconfigure_store_is_valid
    \/ reconfigure_unlock
    \/ reconfigure_fail_lock
    \/ reconfigure_fail_store
    \/ reconfigure_fail_unlock
    \/ reconfigure_return

KeyIsMine ==
    \/ \E r \in Resolvers, key \in Keys : key_is_mine_call(r, key)
    \/ \E r \in Resolvers : key_is_mine_lock(r)
    \/ \E r \in Resolvers : key_is_mine_check_valid(r)
    \/ \E r \in Resolvers : key_is_mine_read_self(r)
    \/ \E r \in Resolvers : key_is_mine_read_begin(r)
    \/ \E r \in Resolvers : key_is_mine_read_end(r)
    \/ \E r \in Resolvers : key_is_mine_loop(r)
    \/ \E r \in Resolvers : key_is_mine_out(r)
    \/ \E r \in Resolvers : key_is_mine_unlock(r)
    \/ \E r \in Resolvers : key_is_mine_return(r)

Introspect ==
    \/ cluster_config_self_id
    \/ cluster_config_num_servers
    \/ cluster_config_num_continuum
    \/ cluster_config_is_valid

Next == Reconfigure \/ KeyIsMine

Spec == Init /\ [][Next]_vars

\* a step of a reconfigure that has been called, other than taking the lock
ReconfigureStep ==
    \/ reconfigure_populate
    \/ reconfigure_generate
    \/ reconfigure_free_old
    \/ reconfigure_store_self_id
    \/ reconfigure_store_num_servers
    \/ reconfigure_store_servers
    \/ reconfigure_store_continuum
    \/ reconfigure_store_num_continuum
    \/ reconfigure_store_is_valid
    \/ reconfigure_unlock
    \/ reconfigure_fail_store
    \/ reconfigure_fail_unlock

\* a step of a lookup that has been called, other than taking the lock
KeyIsMineStep(r) ==
    \/ key_is_mine_check_valid(r)
    \/ key_is_mine_read_self(r)
    \/ key_is_mine_read_begin(r)
    \/ key_is_mine_read_end(r)
    \/ key_is_mine_loop(r)
    \/ key_is_mine_out(r)
    \/ key_is_mine_unlock(r)

\* fair scheduling: a thread that can run does run, and a thread that waits
\* for the mutex gets it if the mutex is free again and again
Fairness ==
    /\ WF_vars(ReconfigureStep)
    /\ SF_vars(reconfigure_lock)
    /\ SF_vars(reconfigure_fail_lock)
    /\ \A r \in Resolvers : WF_vars(KeyIsMineStep(r))
    /\ \A r \in Resolvers : SF_vars(key_is_mine_lock(r))

SpecFair == Init /\ [][Next]_vars /\ Fairness

\* the administrative thread and a thread that calls the introspection functions
NextIntrospect == Reconfigure \/ Introspect

SpecIntrospect == Init /\ [][NextIntrospect]_vars

\* the administrative thread alone
NextReconfigure == Reconfigure

SpecReconfigure == Init /\ [][NextReconfigure]_vars

(***************************************************************************)
(* The workers alone: both look up one key on a node that has just been    *)
(* initialised, or whose last reconfigure succeeded with one of            *)
(* ServerLists; no reconfigure runs.                                       *)
(***************************************************************************)
ResolveKey == <<"k">>

\* the state a successful first reconfigure(server_list) leaves: the server
\* array in block 1, the continuum in block 2
InstalledBy(server_list, ties) ==
    LET got == server_item_populate(server_list, SelfHostport, 0)
    IN [config |-> [self_id |-> got.self_id, self_hostport |-> SelfHostport,
                    num_servers |-> Len(server_list),
                    num_continuum |-> Len(ContinuumTable[got.servers][ties]),
                    servers |-> 1, continuum |-> 2, is_valid |-> TRUE],
        mem |-> [p \in Ptrs |->
                   IF p = 1 THEN [kind |-> "servers", val |-> got.servers]
                   ELSE IF p = 2 THEN [kind |-> "continuum", servers |-> got.servers,
                                       ties |-> ties]
                   ELSE FreeBlock]]

InitResolve ==
    /\ \/ /\ config = [self_id |-> 0, self_hostport |-> SelfHostport, num_servers |-> 0,
                       num_continuum |-> 0, servers |-> NULL, continuum |-> NULL,
                       is_valid |-> FALSE]
          /\ mem = [p \in Ptrs |-> FreeBlock]
          /\ pre = [config |-> config, servers |-> FreeBlock, continuum |-> FreeBlock,
                    server_list |-> <<>>, last_ok |-> FALSE, last_list |-> <<>>]
       \/ \E server_list \in ServerLists, ties \in TieOrders :
            /\ config = InstalledBy(server_list, ties).config
            /\ mem = InstalledBy(server_list, ties).mem
            /\ pre = [config |-> config, servers |-> mem[1], continuum |-> mem[2],
                      server_list |-> <<>>, last_ok |-> TRUE, last_list |-> server_list]
    /\ lock = "none"
    /\ rc = RcIdle
    /\ kim = [r \in Resolvers |-> KimIdle]
    /\ intro = [fn |-> "none", ret |-> 0]
    /\ ndebug \in BOOLEAN
    /\ fault = "none"

NextResolve ==
    \/ \E r \in Resolvers : key_is_mine_call(r, ResolveKey)
    \/ \E r \in Resolvers : key_is_mine_lock(r)
    \/ \E r \in Resolvers : key_is_mine_check_valid(r)
    \/ \E r \in Resolvers : key_is_mine_read_self(r)
    \/ \E r \in Resolvers : key_is_mine_read_begin(r)
    \/ \E r \in Resolvers : key_is_mine_read_end(r)
    \/ \E r \in Resolvers : key_is_mine_loop(r)
    \/ \E r \in Resolvers : key_is_mine_out(r)
    \/ \E r \in Resolvers : key_is_mine_unlock(r)
    \/ \E r \in Resolvers : key_is_mine_return(r)

SpecResolve == InitResolve /\ [][NextResolve]_vars

\* the workers alone, and the administrative thread alone, fairly scheduled
SpecResolveFair == InitResolve /\ [][NextResolve]_vars /\ Fairness

SpecReconfigureFair == Init /\ [][NextReconfigure]_vars /\ Fairness

(***************************************************************************)
(* The registry alone: server_item_populate run on every token list within *)
(* the bounds, as the first reconfigure of a node whose address is set.    *)
(***************************************************************************)
RegistryChars == {"a", "-"}
RegistryTokens == UNION {[1..k -> RegistryChars] : k \in 0..MaxTokLen}
RegistryLists == UNION {[1..k -> RegistryTokens] : k \in 0..MaxListLen}

InitRegistry ==
    /\ config = [self_id |-> 0, self_hostport |-> SelfHostport, num_servers |-> 0,
                 num_continuum |-> 0, servers |-> NULL, continuum |-> NULL,
                 is_valid |-> FALSE]
    /\ lock = "none"
    /\ mem = [p \in Ptrs |-> FreeBlock]
    /\ \E server_list \in RegistryLists :
         /\ rc = [RcIdle EXCEPT !.pc = "populate", !.server_list = server_list]
         /\ pre = [config |-> config, servers |-> FreeBlock, continuum |-> FreeBlock,
                   server_list |-> server_list, last_ok |-> FALSE, last_list |-> <<>>]
    /\ kim = [r \in Resolvers |-> KimIdle]
    /\ intro = [fn |-> "none", ret |-> 0]
    /\ ndebug = FALSE
    /\ fault = "none"

NextRegistry == reconfigure_populate

SpecRegistry == InitRegistry /\ [][NextRegistry]_vars

(***************************************************************************)
(* The lookup alone: the search of cluster_config_key_is_mine run on every *)
(* sorted continuum and digest within the bounds.  The worker "r1" holds   *)
(* the lock and has read the fields (lines 322-333); the item at offset i  *)
(* belongs to server i, so that the answer names the item the search chose.*)
(***************************************************************************)
LookupRings ==
    UNION {{[i \in 1..n |-> [index |-> i - 1, point |-> points[i]]] :
              points \in {ps \in [1..n -> 0..MaxPoint] :
                            \A i \in 1..(n - 1) : ps[i] <= ps[i + 1]}} :
           n \in 1..MaxRingLen}

InitLookup ==
    \E ring \in LookupRings, digest \in 0..(MaxPoint + 1) :
      /\ config = [self_id |-> 0, self_hostport |-> SelfHostport,
                   num_servers |-> Len(ring), num_continuum |-> Len(ring),
                   servers |-> NULL, continuum |-> 1, is_valid |-> TRUE]
      /\ lock = "r1"
      /\ mem = [p \in Ptrs |-> IF p = 1 THEN [kind |-> "items", val |-> ring]
                               ELSE FreeBlock]
      /\ rc = RcIdle
      /\ pre = [config |-> config, servers |-> FreeBlock, continuum |-> mem[1],
                server_list |-> <<>>, last_ok |-> TRUE, last_list |-> <<>>]
      /\ kim = [r \in Resolvers |->
                  IF r = "r1"
                  THEN [KimIdle EXCEPT !.pc = "loop", !.digest = digest, !.beginp = 1,
                                       !.endp = Len(ring), !.highp = Len(ring)]
                  ELSE KimIdle]
      /\ intro = [fn |-> "none", ret |-> 0]
      /\ ndebug = FALSE
      /\ fault = "none"

NextLookup ==
    \/ \E r \in Resolvers : key_is_mine_loop(r)
    \/ \E r \in Resolvers : key_is_mine_out(r)
    \/ \E r \in Resolvers : key_is_mine_unlock(r)

SpecLookup == InitLookup /\ [][NextLookup]_vars

(***************************************************************************)
(* Properties.                                                             *)
(***************************************************************************)
\* where reconfigure holds the lock
RcLockedPcs ==
    {"free_old", "store_self_id", "store_num_servers", "store_servers",
     "store_continuum", "store_num_continuum", "store_is_valid", "unlock",
     "fail_store", "fail_unlock"}

\* where reconfigure has been called and has not yet taken the lock
RcBuildingPcs == {"populate", "generate", "lock", "fail_lock"}

\* the installed state is the one the running reconfigure found, the one it has
\* installed, or (after a failure) the one it found with the validity flag cleared
InstalledIsOldOrNew ==
    \/ rc.pc \in {"start", "idle"}
    \/ /\ rc.pc \in RcBuildingPcs
       /\ Installed = [config |-> pre.config, servers |-> pre.servers,
                       continuum |-> pre.continuum]
    \/ /\ rc.pc = "return" /\ rc.ret
       /\ config = [pre.config EXCEPT !.self_id = rc.self_id,
                                      !.num_servers = Len(pre.server_list),
                                      !.servers = rc.servers,
                                      !.continuum = rc.continuum,
                                      !.num_continuum = rc.num_continuum,
                                      !.is_valid = TRUE]
    \/ /\ rc.pc = "return" /\ ~rc.ret
       /\ Installed = [config |-> [pre.config EXCEPT !.is_valid = FALSE],
                       servers |-> pre.servers, continuum |-> pre.continuum]

\* the frame with which the search of a call for `key` starts on the installed state
KimStart(key) ==
    [KimIdle EXCEPT !.pc = "loop", !.key = key, !.self = config.self_id,
                    !.digest = hash_ketama(key), !.beginp = config.continuum,
                    !.endp = config.num_continuum, !.highp = config.num_continuum]

\* C1: a lookup that has computed its answer still holds the lock, no install is
\* in progress, and owner index, self index and the fields it read are those of
\* the one installed state (the state before the running reconfigure or the
\* state after it, never a mixture); is_mine is owner = self of that answer.
C1_OneSnapshot ==
    \A r \in Resolvers :
      /\ kim[r].pc = "unlock" =>
           LET f == kim[r]
               ring == ArrayAt(mem, config.continuum)
               found == KimSearch(KimStart(f.key), ring, CHOOSE junk \in JunkItems : TRUE)
           IN /\ lock = r
              /\ rc.pc \notin RcLockedPcs
              /\ InstalledIsOldOrNew
              /\ config.is_valid
              /\ f.self = config.self_id /\ f.self_id = config.self_id
              /\ f.beginp = config.continuum /\ f.endp = config.num_continuum
              /\ ring # <<>> => f.server = found.server /\ f.key_id = found.server
      /\ (kim[r].pc = "return" /\ kim[r].key_id # Unwritten) =>
           kim[r].ret = (kim[r].key_id = kim[r].self_id)

\* a lookup has its answer while a reconfigure has built its candidate and waits
\* for the lock, and the other worker waits for the lock too
C1_Witness ==
    \E r \in Resolvers, q \in Resolvers :
      /\ r # q
      /\ kim[r].pc = "unlock" /\ kim[q].pc = "lock"
      /\ rc.pc = "lock"
      /\ config.num_continuum > 0
      /\ rc.self_id # config.self_id

\* C2: in every state (the introspection functions read the fields without the
\* lock, so a reader can read in any state) self_id, num_servers, num_continuum
\* and is_valid are those of one installed configuration: the one the running
\* reconfigure found (with is_valid possibly cleared by its failure) or the one
\* it installs; and is_valid implies num_continuum = 160 * num_servers.
C2_NoPartialState ==
    LET Four(c) == <<c.self_id, c.num_servers, c.num_continuum, c.is_valid>>
    IN /\ \/ Four(config) = Four(pre.config)
          \/ Four(config) = Four([pre.config EXCEPT !.is_valid = FALSE])
          \/ Four(config) = <<rc.self_id, Len(pre.server_list), rc.num_continuum, TRUE>>
       /\ config.is_valid =>
            config.num_continuum = NUM_OF_HASHES * NUM_PER_HASH * config.num_servers

\* C3: no call of key_is_mine kills the process (by its assert or by a read
\* outside the continuum), and a call that found is_valid false returned true.
C3_ResolveNeverFails ==
    /\ fault \notin {"assert", "read"}
    /\ \A r \in Resolvers :
         (kim[r].pc = "return" /\ kim[r].key_id = Unwritten) => kim[r].ret = TRUE

\* the least and the greatest member of a non-empty set of numbers
SetMin(S) == CHOOSE x \in S : \A y \in S : x <= y
SetMax(S) == CHOOSE x \in S : \A y \in S : x >= y

\* the positions (from 1) of the items of ring whose point is >= digest
Successors(ring, digest) == {i \in 1..Len(ring) : ring[i].point >= digest}

\* C4: when the search has ended on a sorted non-empty continuum and the digest
\* is <= some point, the server is that of the first item whose point is >= the
\* digest (the linear successor scan).
C4_SuccessorLinearScan ==
    \A r \in Resolvers :
      kim[r].pc = "out" =>
        LET ring == ArrayAt(mem, kim[r].beginp)
            succ == Successors(ring, kim[r].digest)
        IN succ # {} => kim[r].server = ring[SetMin(succ)].index

\* the search has ended on the first of two adjacent equal points, not at offset 0
C4_Witness ==
    \E r \in Resolvers :
      /\ kim[r].pc = "out"
      /\ LET ring == ArrayAt(mem, kim[r].beginp)
             succ == Successors(ring, kim[r].digest)
         IN /\ succ # {}
            /\ SetMin(succ) > 1
            /\ SetMin(succ) < Len(ring)
            /\ ring[SetMin(succ) + 1].point = ring[SetMin(succ)].point
            /\ kim[r].server = ring[SetMin(succ)].index

\* C5: when the search has ended on a sorted non-empty continuum and the digest
\* is greater than every point, the server is that of the item at offset 0.
C5_Wraparound ==
    \A r \in Resolvers :
      kim[r].pc = "out" =>
        LET ring == ArrayAt(mem, kim[r].beginp)
        IN (ring # <<>> /\ Successors(ring, kim[r].digest) = {}) =>
             kim[r].server = ring[1].index

\* the search has wrapped around on a continuum of three items
C5_Witness ==
    \E r \in Resolvers :
      /\ kim[r].pc = "out"
      /\ LET ring == ArrayAt(mem, kim[r].beginp)
         IN /\ Len(ring) = 3
            /\ Successors(ring, kim[r].digest) = {}
            /\ kim[r].server = ring[1].index

\* what reconfigure found installed when it was called
PreInstalled ==
    [config |-> pre.config, servers |-> pre.servers, continuum |-> pre.continuum]

\* C6: on the failure path of reconfigure the installed fields and the blocks
\* they point to stay as the call found them, except that is_valid becomes
\* false; the candidate is gone (no block is left but the installed ones).
C6_FailureKeepsInstalled ==
    /\ rc.pc \in {"fail_lock", "fail_store"} => Installed = PreInstalled
    /\ (rc.pc = "fail_unlock" \/ (rc.pc = "return" /\ ~rc.ret)) =>
         Installed = [PreInstalled EXCEPT !.config.is_valid = FALSE]
    /\ (rc.pc \in {"fail_lock", "fail_store", "fail_unlock"}
          \/ (rc.pc = "return" /\ ~rc.ret)) =>
         /\ rc.servers = NULL /\ rc.continuum = NULL
         /\ \A p \in Ptrs :
              mem[p] # FreeBlock => p \in {config.servers, config.continuum}

\* a reconfigure has failed on a node that had a valid two-server configuration
C6_Witness ==
    /\ rc.pc = "return" /\ ~rc.ret
    /\ pre.config.is_valid /\ pre.config.num_servers = 2
    /\ pre.server_list # <<>>
    /\ ~config.is_valid /\ config.num_servers = 2

\* the canonical address of a token as the registry's contract words it: the
\* text before the first separator, the whole token when it has none
ContractAddress(token) == SubSeq(token, 1, TokenLen(token))

\* the indexes (from 0) of the tokens of the running call whose canonical
\* address is this node's address
SelfTokens ==
    {i \in 0..(Len(pre.server_list) - 1) :
       ContractAddress(pre.server_list[i + 1]) = config.self_hostport}

\* the indexes (from 0) of the installed entries whose stored address is this
\* node's address
SelfEntries ==
    LET servers == ArrayAt(mem, config.servers)
    IN {i \in 0..(Len(servers) - 1) : servers[i + 1] = config.self_hostport}

\* C7 as amended: after a successful reconfigure with one or more tokens whose
\* canonical address is the node's own address, self_id is the index of the
\* last such entry.
C7_SelfIdLastMatch ==
    (rc.pc = "return" /\ rc.ret /\ SelfTokens # {}) =>
      config.self_id = SetMax(SelfTokens)

\* C7 as claimed: ... self_id is the index of the first such entry.
C7_SelfIdFirstMatch ==
    (rc.pc = "return" /\ rc.ret /\ SelfTokens # {}) =>
      config.self_id = SetMin(SelfTokens)

\* a reconfigure has succeeded with a list that holds this node twice
C7_Witness ==
    /\ rc.pc = "return" /\ rc.ret
    /\ Cardinality(SelfTokens) >= 2
    /\ config.self_id = SetMax(SelfTokens)

\* C8: whenever is_valid is true (outside reconfigure's install step), self_id
\* is an index into the installed server list and the entry there is this
\* node's address.
C8_SelfIdIsSelf ==
    (config.is_valid /\ rc.pc \notin RcLockedPcs) =>
      LET servers == ArrayAt(mem, config.servers)
      IN /\ config.self_id < Len(servers)
         /\ servers[config.self_id + 1] = config.self_hostport

\* C9 as amended: after a successful reconfigure whose stored addresses do not
\* hold this node's address, self_id is 0.
C9_NoMatchSelfIdZero ==
    (rc.pc = "return" /\ rc.ret /\ SelfEntries = {}) => config.self_id = 0

\* C9 as claimed: after a successful reconfigure with no token whose canonical
\* address is the node's own, self_id is what it was before the call.
C9_NoMatchKeepsSelfId ==
    (rc.pc = "return" /\ rc.ret /\ SelfTokens = {}) =>
      config.self_id = pre.config.self_id

\* a reconfigure without this node has succeeded where self_id was 1 before
C9_Witness ==
    /\ rc.pc = "return" /\ rc.ret
    /\ SelfEntries = {} /\ SelfTokens = {}
    /\ pre.config.self_id = 1 /\ pre.config.is_valid
    /\ config.self_id = 0

\* C10: when the registry has succeeded, the server array has one entry per
\* token of the list as passed, in order, and entry i is the canonical address
\* of token i (so no entry is without an address).
C10_OneAddressPerToken ==
    rc.pc = "generate" =>
      LET servers == ArrayAt(mem, rc.servers)
      IN /\ Len(servers) = Len(pre.server_list)
         /\ \A i \in 1..Len(servers) :
              servers[i] = ContractAddress(pre.server_list[i])

\* C11: in every state with is_valid true in which reconfigure is not inside
\* its install step, num_continuum = 160 * num_servers, and the installed
\* arrays have these lengths; after a failed reconfigure the retained counts
\* still satisfy the equation.
C11_RingSizeIs160PerServer ==
    /\ (config.is_valid /\ rc.pc \notin RcLockedPcs) =>
         /\ config.num_continuum = NUM_OF_HASHES * NUM_PER_HASH * config.num_servers
         /\ Len(ArrayAt(mem, config.continuum)) = config.num_continuum
         /\ Len(ArrayAt(mem, config.servers)) = config.num_servers
    /\ (rc.pc = "return" /\ ~rc.ret) =>
         config.num_continuum = NUM_OF_HASHES * NUM_PER_HASH * config.num_servers

\* a reconfigure with two servers has succeeded over a one-server configuration
C11_Witness ==
    /\ rc.pc = "return" /\ rc.ret
    /\ config.is_valid
    /\ config.num_servers = 2 /\ config.num_continuum = 320
    /\ pre.config.is_valid /\ pre.config.num_servers = 1

\* the number of offsets of array at which item stands
Occurrences(array, item) == Cardinality({i \in 1..Len(array) : array[i] = item})

\* what C12 says of the continuum built over servers: every index is in [0, N),
\* every server has 160 items, and each (index, point) pair the hash loops
\* produced for a server is in the sorted continuum as often as they produced it
BuildIsPerServer(servers, ring) ==
    LET N == Len(servers)
        points == {[index |-> ss, point |-> PointFromDigest(
                                    hash_md5(HostText(servers[ss + 1], hh)),
                                    nn * NUM_PER_HASH)] :
                     ss \in 0..(N - 1), hh \in 0..(NUM_OF_HASHES - 1),
                     nn \in 0..(NUM_PER_HASH - 1)}
        made(item) == Cardinality({<<hh, nn>> \in (0..(NUM_OF_HASHES - 1)) \X (0..(NUM_PER_HASH - 1)) :
                        PointFromDigest(hash_md5(HostText(servers[item.index + 1], hh)),
                                        nn * NUM_PER_HASH) = item.point})
    IN /\ \A i \in 1..Len(ring) : ring[i].index \in 0..(N - 1)
       /\ \A s \in 0..(N - 1) :
            Cardinality({i \in 1..Len(ring) : ring[i].index = s})
              = NUM_OF_HASHES * NUM_PER_HASH
       /\ \A item \in points : Occurrences(ring, item) = made(item)

\* BuildIsPerServer for every continuum the builder can leave
BuildChecks ==
    [servers \in ServerArrays |->
       [ties \in TieOrders |-> BuildIsPerServer(servers, ContinuumTable[servers][ties])]]

\* C12: every continuum the ring builder has built over N servers has indexes
\* in [0, N) only and exactly 160 items per server, and the sort has kept every
\* point with the server it was computed for.
C12_PointsPerServer ==
    \A p \in Ptrs :
      mem[p].kind = "continuum" => BuildChecks[mem[p].servers][mem[p].ties]

\* the builder has built the continuum of a two-server list
C12_Witness ==
    /\ rc.pc = "lock"
    /\ rc.continuum # NULL
    /\ Len(mem[rc.continuum].servers) = 2
    /\ Len(ArrayAt(mem, rc.continuum)) = 320
    /\ \E i \in 1..319 : ArrayAt(mem, rc.continuum)[i].index = 1
                           /\ ArrayAt(mem, rc.continuum)[i + 1].index = 0

\* C13: with no reconfigure running, the lookups leave the installed fields and
\* arrays as they were, and two lookups of one key that have returned hold the
\* same (key_id, self_id, is_mine).
C13_ReadOnlyDeterministic ==
    /\ Installed = PreInstalled
    /\ \A r1, r2 \in Resolvers :
         (kim[r1].pc = "return" /\ kim[r2].pc = "return") =>
           /\ kim[r1].key_id = kim[r2].key_id
           /\ kim[r1].self_id = kim[r2].self_id
           /\ kim[r1].ret = kim[r2].ret

\* C14: when a reconfigure has succeeded with the list that the reconfigure
\* before it succeeded with, the installed server array, self_id and continuum
\* (items and their order, equal points included) are those it found installed.
C14_SameListSameRing ==
    (rc.pc = "return" /\ rc.ret /\ pre.last_ok /\ pre.last_list = pre.server_list) =>
      /\ config.self_id = pre.config.self_id
      /\ config.num_servers = pre.config.num_servers
      /\ ArrayAt(mem, config.servers) = pre.servers.val
      /\ ArrayAt(mem, config.continuum)
           = ContinuumTable[pre.continuum.servers][pre.continuum.ties]

\* C15: reconfigure holds the lock exactly in its install step (success) or
\* around its is_valid := false store (failure), never while the registry or
\* the ring builder runs; so while it is there, a lookup that waits for the
\* lock can take it unless another lookup holds it, and a lookup inside its
\* critical section sees the installed state as the reconfigure found it.
C15_BuildOutsideLock ==
    /\ (lock = "admin") <=> (rc.pc \in RcLockedPcs)
    /\ rc.pc \in RcBuildingPcs =>
         /\ Installed = PreInstalled
         /\ \A r \in Resolvers :
              (kim[r].pc = "lock" /\ lock \notin Resolvers /\ fault = "none") =>
                ENABLED key_is_mine_lock(r)

\* a lookup is searching the installed continuum under the lock while the
\* reconfigure is at the ring builder
C15_Witness ==
    /\ rc.pc = "generate"
    /\ \E r \in Resolvers :
         /\ lock = r
         /\ kim[r].pc = "loop"
         /\ kim[r].beginp = config.continuum
    /\ pre.config.is_valid

\* C16: outside reconfigure's locked section is_valid is true exactly when the
\* last reconfigure that returned (or the one that is returning) succeeded,
\* and false before the first; a reconfigure that returns success has installed
\* its own server array, continuum and self_id, whatever failed before it, and
\* a lookup that searches under the lock searches the installed continuum.
C16_ValidIffLastSucceeded ==
    /\ rc.pc \in {"start", "idle"} \cup RcBuildingPcs => config.is_valid = pre.last_ok
    /\ rc.pc = "return" => config.is_valid = rc.ret
    /\ (rc.pc = "return" /\ rc.ret) =>
         LET got == server_item_populate(pre.server_list, config.self_hostport, 0)
         IN /\ config.servers = rc.servers /\ config.continuum = rc.continuum
            /\ ArrayAt(mem, config.servers) = got.servers
            /\ mem[config.continuum].kind = "continuum"
            /\ mem[config.continuum].servers = got.servers
            /\ config.self_id = got.self_id
            /\ config.num_servers = Len(pre.server_list)
    /\ \A r \in Resolvers :
         (lock = r /\ kim[r].pc \in {"loop", "out"}) =>
           /\ config.is_valid
           /\ kim[r].beginp = config.continuum

\* a reconfigure has succeeded after a failed one that followed a success
C16_Witness ==
    /\ rc.pc = "return" /\ rc.ret
    /\ ~pre.last_ok /\ ~pre.config.is_valid
    /\ pre.config.num_servers = 1
    /\ config.is_valid /\ config.num_servers = 2

\* C17: under fair scheduling every lookup that has been called returns, and
\* every reconfigure that has been called returns.
C17_EveryCallReturns ==
    /\ \A r \in Resolvers : (kim[r].pc \in {"assert", "lock"}) ~> (kim[r].pc = "return")
    /\ (rc.pc = "populate") ~> (rc.pc = "return")

\* C18: a lookup on a valid state reads continuum items only at offsets in
\* [0, num_continuum): the items it has read in a loop pass are inside the
\* array, and no read outside it has ended the process.
C18_ReadsInsideContinuum ==
    /\ fault # "read"
    /\ \A r \in Resolvers :
         (lock = r /\ kim[r].pc \in {"loop", "out"}) =>
           kim[r].reads \subseteq 0..(config.num_continuum - 1)

\* where a lookup is inside its critical section
KimCriticalPcs ==
    {"check_valid", "read_self", "read_begin", "read_end", "loop", "out", "unlock"}

====
